---- MODULE Spec2Model ----
(***************************************************************************)
(* A model of the Qubes GUI agent for Wayland (src/src/qubes.rs and        *)
(* src/src/shell.rs): the window id allocator, the surface registry, the   *)
(* translation of surface commits into Qubes messages, the translation of  *)
(* daemon events into Wayland actions, and the periodic tick.              *)
(*                                                                         *)
(* Every reactor callback is one action.  The messages a callback sends to *)
(* the daemon are recorded, in order, in lastOut; what it sends to the     *)
(* Wayland client in lastClient; the protocol errors it posts in lastErr;  *)
(* the framebuffer rows it writes in lastWrites.  When the callback        *)
(* returns to the reactor (Return), its output is folded into the          *)
(* per-window summary `seen`, so that `seen` followed by lastOut is the    *)
(* whole history of a window.                                              *)
(*                                                                         *)
(* Specifications: Spec is the life of windows; SpecTick and FairSpec the  *)
(* reclaiming of dead entries by the tick, without and with fairness;      *)
(* SpecConfigure the size negotiation between daemon and client; SpecId    *)
(* the id allocator alone; SpecBuf the commit path on untrusted buffers.   *)
(***************************************************************************)
EXTENDS Integers, Sequences, FiniteSets, TLC

\* ------------------------------------------------------------- bounds
\* Number of Wayland surfaces the client owns.
NSurf == 1
\* Largest width and height of a client buffer in the commit-path checks.
BufDim == 2
\* Width in bits of the window id counter of the model (u32 in the code).
WidBits == 7
\* Most frames queued when the daemon source wakes.
MaxFrames == 2
\* Most frame callbacks pending on a surface.
MaxCallbacks == 2

\* ------------------------------------------------- program constants
I32Max == 2147483647
BYTES_PER_PIXEL == 4
FirstWid == 2
SelfWindow == 1

WidMax == 2^WidBits - 1
SURFS == 1 .. NSurf
\* Window ids the model can hand out: one per surface, from FirstWid.
Ids == 1 .. (NSurf + 1)

VARIABLES
    wid,          \* QubesData.wid: next window id
    ids,          \* history: the ids QubesData::id has returned, in order
    map,          \* QubesData.map: window id -> QubesBackendData
    selfwin,      \* QubesData.last_width, last_height and the size of buf
    surf,         \* per wl_surface: its SurfaceData and its toplevel role
    kbfocus,      \* the seat's keyboard focus: a surface, or 0 for none
    running,      \* AnvilState.running
    panicked,     \* the process died on a panic
    seen,         \* history: per window, what was sent before this callback
    lastEv,       \* the event the running callback handles; "idle" between callbacks
    lastOut,      \* messages the callback sent to the daemon, in order
    lastClient,   \* events the callback sent to Wayland clients, in order
    lastErr,      \* protocol errors the callback posted
    lastWrites    \* framebuffer rows the callback wrote

vars == << wid, ids, map, selfwin, surf, kbfocus, running, panicked, seen,
           lastEv, lastOut, lastClient, lastErr, lastWrites >>

\* ------------------------------------------------------------ values
NoSize == << >>
NoBuffer == [offset |-> 0, width |-> 0, height |-> 0, stride |-> 0, pool |-> 0]

\* An optional geometry rectangle, of which only loc is read.
NoGeometry == [some |-> FALSE, x |-> 0, y |-> 0]
Geometry(x, y) == [some |-> TRUE, x |-> x, y |-> y]

Msg(ty, window, rect, ovr) ==
    [ty |-> ty, window |-> window, rect |-> rect, ovr |-> ovr]

ClientEv(ev, window, s, size, activated) ==
    [ev |-> ev, window |-> window, surface |-> s, size |-> size,
     activated |-> activated]

Max(a, b) == IF a >= b THEN a ELSE b
Min(a, b) == IF a <= b THEN a ELSE b

\* ------------------------------------------------- window id allocator
\* A counter that wraps to 0 past its largest value, which the code rules out.
checked_add_wrapping(w) ==
    [some |-> TRUE, val |-> (w + 1) % (WidMax + 1)]

\* u32::checked_add(1): None on overflow of the id counter.
checked_add(w) ==
    IF w + 1 > WidMax THEN [some |-> FALSE, val |-> 0]
    ELSE [some |-> TRUE, val |-> w + 1]

\* QubesData::id: returns the current counter and advances it; panics when
\* the counter cannot advance or when the id is zero.
id(w) ==
    LET next == checked_add(w)
    IN  IF ~next.some \/ w = 0
        THEN [panic |-> TRUE, id |-> 0, wid |-> w]
        ELSE [panic |-> FALSE, id |-> w, wid |-> next.val]


\* ------------------------------------------------------------ registry
EmptyMap == [k \in {} |-> 0]

MapPut(m, k, v) == [x \in (DOMAIN m) \cup {k} |-> IF x = k THEN v ELSE m[x]]

\* BTreeMap::remove for each key of a set.
MapRemove(m, keys) == [x \in (DOMAIN m) \ keys |-> m[x]]

\* An entry that starts out configured.
NewEntry_configured(s) ==
    [surface |-> s, has_configured |-> TRUE, coordinates |-> <<0, 0>>]

\* QubesBackendData, as inserted by the NewToplevel handler.
NewEntry(s) ==
    [surface |-> s, has_configured |-> FALSE, coordinates |-> <<0, 0>>]

\* A wl_surface before any SurfaceData is attached and before it has a role.
\* window = 0 stands for "no SurfaceData in the surface's data_map".
FreshSurface ==
    [window |-> 0, hasbuf |-> FALSE, buffer |-> NoBuffer, buffer_scale |-> 0,
     coordinates |-> <<0, 0>>,
     alive |-> FALSE, psize |-> NoSize, activated |-> FALSE,
     sent |-> FALSE, unacked |-> FALSE, title |-> "none",
     geometry |-> NoGeometry, xdg_geometry |-> NoGeometry,
     frame_callbacks |-> 0, subsurface |-> "none"]

\* SurfaceData as built by QubesData::data for window w.
WithSurfaceData(sf, w) ==
    [sf EXCEPT !.window = w, !.hasbuf = FALSE, !.buffer = NoBuffer,
               !.buffer_scale = 0, !.coordinates = <<0, 0>>,
               !.geometry = NoGeometry]

\* A role that never reads as dead.
get_surface_alive(s) == s

\* Kind::get_surface: the wl_surface of a role, none once the role is dead.
get_surface(s) == IF surf[s].alive THEN s ELSE 0

\* ------------------------------------------------------------- history
Count(seq, ty, i) ==
    Cardinality({k \in 1 .. Len(seq) : seq[k].ty = ty /\ seq[k].window = i})

NoSeen ==
    [created |-> 0, destroyed |-> FALSE, outstanding |-> FALSE, dumped |-> FALSE,
     advertised |-> NoSize]

Ev(ty, window, s, rect, ovr, arg, pre) ==
    [ty |-> ty, window |-> window, surface |-> s, rect |-> rect, ovr |-> ovr,
     arg |-> arg, pre |-> pre]

IdleEv == Ev("idle", 0, 0, << >>, 0, << >>, << >>)

RectSize(rect) == <<rect[3], rect[4]>>
RectTopLeft(rect) == <<rect[1], rect[2]>>

\* The size the daemon most recently advertised for window i, the event ev
\* included.
Advertised(sn, ev, i) ==
    IF ev.ty = "Configure" /\ ev.window = i THEN RectSize(ev.rect)
    ELSE sn[i].advertised

\* Whether the daemon holds a window for id i once the messages of out are
\* sent: the last Create or Destroy for i decides, and before that what held
\* already.
Outstanding(held, out, i) ==
    LET ks == {k \in 1 .. Len(out) :
                  out[k].window = i /\ out[k].ty \in {"Create", "Destroy"}}
    IN  IF ks = {} THEN held
        ELSE out[CHOOSE k \in ks : \A j \in ks : j <= k].ty = "Create"

\* The summary of the history once the output of a callback is folded in.
\* Create messages are counted up to two.
SeenAfter(sn, ev, out) ==
    [i \in Ids |->
        [created    |-> Min(2, sn[i].created + Count(out, "Create", i)),
         destroyed  |-> sn[i].destroyed \/ Count(out, "Destroy", i) > 0,
         outstanding |-> Outstanding(sn[i].outstanding, out, i),
         dumped     |-> sn[i].dumped \/ Count(out, "WindowDump", i) > 0,
         advertised |-> Advertised(sn, ev, i)]]

\* Every callback records what it handled and what it sent.
Record(ev, out, cl, err, wr) ==
    /\ lastEv' = ev
    /\ lastOut' = out
    /\ lastClient' = cl
    /\ lastErr' = err
    /\ lastWrites' = wr
    /\ UNCHANGED seen

\* ---------------------------------------------------------------- Init
\* run_qubes before the main loop: the self-window is created, titled,
\* dumped and mapped; the registry is empty and ids start at 2.
SelfRect == <<50, 400, 512, 256>>

InitOut ==
    << Msg("Create", SelfWindow, SelfRect, 0),
       Msg("SetTitle", SelfWindow, << >>, 0),
       Msg("WindowDump", SelfWindow, <<0, 0, 512, 256>>, 0),
       Msg("MapInfo", SelfWindow, << >>, 0) >>

Init ==
    /\ wid = FirstWid
    /\ ids = << >>
    /\ map = EmptyMap
    /\ selfwin = [last_width |-> 0, last_height |-> 0, bufw |-> 512, bufh |-> 256]
    /\ surf = [s \in SURFS |-> FreshSurface]
    /\ kbfocus = 0
    /\ running = TRUE
    /\ panicked = FALSE
    /\ seen = [i \in Ids |-> NoSeen]
    /\ lastEv = Ev("init", 0, 0, << >>, 0, << >>, << >>)
    /\ lastOut = InitOut
    /\ lastClient = << >>
    /\ lastErr = << >>
    /\ lastWrites = << >>

\* The reactor dispatches a callback when no other callback is running, the
\* process is alive and the main loop has not seen the running flag cleared.
Live == running /\ ~panicked /\ lastEv.ty = "idle"

\* The running callback returns to the reactor.
Return ==
    /\ ~panicked
    /\ lastEv.ty # "idle"
    /\ seen' = SeenAfter(seen, lastEv, lastOut)
    /\ lastEv' = IdleEv
    /\ lastOut' = << >>
    /\ lastClient' = << >>
    /\ lastErr' = << >>
    /\ lastWrites' = << >>
    /\ UNCHANGED << wid, ids, map, selfwin, surf, kbfocus, running, panicked >>

\* A panic: the process dies where it stands; what was sent stays sent.
Panic(ev, out, cl, err, wr) ==
    /\ panicked' = TRUE
    /\ Record(ev, out, cl, err, wr)


\* What a daemon event finds for its window when it arrives.
Pre(window) ==
    IF window \in DOMAIN map
    THEN [registered |-> TRUE,
          has_configured |-> map[window].has_configured,
          psize |-> surf[map[window].surface].psize,
          activated |-> surf[map[window].surface].activated,
          alive |-> surf[map[window].surface].alive,
          sent |-> surf[map[window].surface].sent,
          last |-> <<selfwin.last_width, selfwin.last_height>>]
    ELSE [registered |-> FALSE, has_configured |-> FALSE, psize |-> NoSize,
          activated |-> FALSE, alive |-> FALSE, sent |-> FALSE,
          last |-> <<selfwin.last_width, selfwin.last_height>>]

\* ------------------------------------------------- xdg toplevel role
\* ToplevelSurface::send_configure: the pending state goes to the client and
\* waits for its ack.
SendConfigure(sf) == [sf EXCEPT !.sent = TRUE, !.unacked = TRUE]

\* A configure that never tells the client it is activated.
ConfigureEv_inactive(w, s, sf) == ClientEv("configure", w, s, sf.psize, FALSE)

\* The configure event a toplevel is sent: its pending size and states.
ConfigureEv(w, s, sf) == ClientEv("configure", w, s, sf.psize, sf.activated)

\* ------------------------------------------------- daemon: Configure
\* QubesData::process_self_configure.  The sizes are u32, modelled WidBits
\* wide; their products are computed without a range check, so a product
\* that does not fit panics in a build with overflow checks and wraps in a
\* build without.
process_self_configure(sw, rect, ovr, checks) ==
    LET width == rect[3]
        height == rect[4]
        mul(a, b) == (a * b) % (WidMax + 1)
        need_dump == mul(sw.last_width, sw.last_height) # mul(width, height)
        lines == height \div 2
        line_width == mul(width, 4)
        shade == mul(lines, width)
        overflow == \/ sw.last_width * sw.last_height > WidMax
                    \/ width * height > WidMax
                    \/ width * 4 > WidMax
                    \/ lines * width > WidMax
                    \/ (height \div 4) * line_width > WidMax
        buf == IF need_dump THEN <<width, height>> ELSE <<sw.bufw, sw.bufh>>
    IN  IF width = sw.last_width /\ height = sw.last_height
        THEN [selfwin |-> sw, out |-> << >>, writes |-> << >>, panic |-> FALSE]
        ELSE IF overflow /\ checks
        THEN [selfwin |-> sw, out |-> << >>, writes |-> << >>, panic |-> TRUE]
        ELSE [selfwin |-> [last_width |-> width, last_height |-> height,
                           bufw |-> buf[1], bufh |-> buf[2]],
              out |-> (IF need_dump
                       THEN << Msg("WindowDump", SelfWindow, <<0, 0, width, height>>, 0) >>
                       ELSE << >>)
                      \o << Msg("Configure", SelfWindow, rect, ovr),
                            Msg("ShmImage", SelfWindow, rect, 0) >>,
              writes |-> << [window |-> SelfWindow,
                             done |-> TRUE,
                             dst |-> mul(height \div 4, line_width),
                             len |-> shade * BYTES_PER_PIXEL,
                             src |-> 0] >>,
              panic |-> FALSE]

\* A handler that passes every Configure on to the client.
suppress_never(same_size, has_configured) == FALSE

\* The match arm `Ok(true) if *has_configured`: a configure whose size is the
\* pending one is not sent again to a configured window.
suppress(same_size, has_configured) == same_size /\ has_configured

\* A lookup miss that echoes the Configure all the same.
configure_miss_echo(window, rect, ovr) == << Msg("Configure", window, rect, ovr) >>

\* What a Configure for a window that is not in the registry sends to the
\* daemon: `None => return Ok(())`.
configure_miss(window, rect, ovr) == << >>

\* QubesData::process_client_configure.
process_client_configure(window, rect, ovr) ==
    IF window \notin DOMAIN map
    THEN [map |-> map, surf |-> surf, out |-> configure_miss(window, rect, ovr),
          cl |-> << >>]
    ELSE
    LET e == map[window]
        s == e.surface
        sf == surf[s]
        out == << Msg("ShmImage", window, rect, 0),
                  Msg("Configure", window, rect, ovr) >>
        e1 == [e EXCEPT !.coordinates = RectTopLeft(rect)]
        sf1 == IF get_surface(s) # 0 /\ sf.window # 0
               THEN [sf EXCEPT !.coordinates = RectTopLeft(rect)]
               ELSE sf
        new_size == IF e.has_configured THEN RectSize(rect) ELSE <<0, 0>>
        same_size == (new_size = sf.psize)
        sf2 == [sf1 EXCEPT !.psize = new_size]
    IN  IF ~sf.alive
        THEN \* with_pending_state fails on a dead role
             [map |-> MapPut(map, window, e1), surf |-> [surf EXCEPT ![s] = sf1],
              out |-> out, cl |-> << >>]
        ELSE IF suppress(same_size, e.has_configured)
        THEN [map |-> MapPut(map, window, e1), surf |-> [surf EXCEPT ![s] = sf2],
              out |-> out, cl |-> << >>]
        ELSE [map |-> MapPut(map, window, [e1 EXCEPT !.has_configured = TRUE]),
              surf |-> [surf EXCEPT ![s] = SendConfigure(sf2)],
              out |-> out,
              cl |-> << ConfigureEv(window, s, sf2) >>]

\* QubesData::process_configure, called by the daemon callback on a
\* Configure event.
DaemonConfigure(window, rect, ovr) ==
    /\ Live
    /\ LET ev == Ev("Configure", window, 0, rect, ovr, << >>, Pre(window))
       IN  IF window = 0
           THEN /\ Panic(ev, << >>, << >>, << >>, << >>)
                /\ UNCHANGED << wid, ids, map, selfwin, surf, kbfocus, running >>
           ELSE IF window = SelfWindow
           THEN \E checks \in BOOLEAN :
                LET r == process_self_configure(selfwin, rect, ovr, checks)
                IN  /\ selfwin' = r.selfwin
                    /\ panicked' = r.panic
                    /\ Record(ev, << Msg("Configure", SelfWindow, rect, ovr) >> \o r.out,
                              << >>, << >>, r.writes)
                    /\ UNCHANGED << wid, ids, map, surf, kbfocus, running >>
           ELSE LET r == process_client_configure(window, rect, ovr)
                IN  /\ map' = r.map
                    /\ surf' = r.surf
                    /\ Record(ev, r.out, r.cl, << >>, << >>)
                    /\ UNCHANGED << wid, ids, selfwin, kbfocus, running, panicked >>

\* A Configure for a registered client window during which write k to the
\* daemon socket fails.  The first write is the ShmImage, sent with `?`: the
\* error leaves the callback, dispatch fails and the main loop clears the
\* running flag.  The second write is the echo of the Configure, sent with
\* unwrap(): the error panics, after the ShmImage has gone out.
DaemonConfigureFails(window, rect, ovr, k) ==
    /\ Live
    /\ window \in DOMAIN map
    /\ LET ev == Ev("ConfigureFails", window, 0, rect, ovr, k, Pre(window))
       IN  IF k = 1
           THEN /\ running' = FALSE
                /\ Record(ev, << >>, << >>, << >>, << >>)
                /\ UNCHANGED panicked
           ELSE /\ Panic(ev, << Msg("ShmImage", window, rect, 0) >>, << >>, << >>, << >>)
                /\ UNCHANGED running
    /\ UNCHANGED << wid, ids, map, selfwin, surf, kbfocus >>

\* ------------------------------------------------- daemon: Focus
\* The Focus arm of the daemon callback.
focus_handler(window, ty, mode, detail) ==
    LET has_focus == (ty = 9)
        skip == [surf |-> surf, kbfocus |-> kbfocus, cl |-> << >>, panic |-> FALSE]
    IN  IF ty \notin {9, 10} THEN skip
        ELSE IF detail > 7 THEN skip
        ELSE IF window = 0 THEN [skip EXCEPT !.panic = TRUE]
        ELSE IF window \notin DOMAIN map
        THEN [skip EXCEPT !.kbfocus = 0]
        ELSE LET s == map[window].surface
                 sf == surf[s]
                 changed == sf.alive /\ (sf.activated # has_focus)
                 sf1 == IF sf.alive THEN [sf EXCEPT !.activated = has_focus] ELSE sf
             IN  [surf |-> [surf EXCEPT ![s] = IF changed THEN SendConfigure(sf1) ELSE sf1],
                  kbfocus |-> IF has_focus THEN get_surface(s) ELSE 0,
                  cl |-> IF changed THEN << ConfigureEv(window, s, sf1) >> ELSE << >>,
                  panic |-> FALSE]

\* The Focus arm of the daemon callback.  The event records the keyboard
\* focus it found.
DaemonFocus(window, ty, mode, detail) ==
    /\ Live
    /\ LET ev == Ev("Focus", window, 0, << >>, 0,
                    [ty |-> ty, mode |-> mode, detail |-> detail, focus |-> kbfocus],
                    Pre(window))
           r == focus_handler(window, ty, mode, detail)
       IN  /\ surf' = r.surf
           /\ kbfocus' = r.kbfocus
           /\ panicked' = r.panic
           /\ Record(ev, << >>, r.cl, << >>, << >>)
           /\ UNCHANGED << wid, ids, map, selfwin, running >>

\* ------------------------------------------------- daemon: Close
\* A Close that reaches no client.
send_close_dropped(window) == << >>

\* Kind::send_close on a toplevel: the client is asked to close.
send_close(window) ==
    LET s == map[window].surface
    IN  IF surf[s].alive THEN << ClientEv("close", window, s, NoSize, FALSE) >>
        ELSE << >>

\* A Close for window 1 that leaves the running flag set.
close_self_ignored == TRUE

\* The running flag once Close for window 1 is handled:
\* agent_full.running.store(false).
close_self_running == FALSE

\* The Close arm of the daemon callback.
DaemonClose(window) ==
    /\ Live
    /\ LET ev == Ev("Close", window, 0, << >>, 0, << >>, Pre(window))
       IN  IF window = SelfWindow
           THEN /\ running' = close_self_running
                /\ Record(ev, << >>, << >>, << >>, << >>)
                /\ UNCHANGED panicked
           ELSE IF window = 0
           THEN /\ Panic(ev, << >>, << >>, << >>, << >>)
                /\ UNCHANGED running
           ELSE /\ Record(ev, << >>,
                          IF window \in DOMAIN map THEN send_close(window) ELSE << >>,
                          << >>, << >>)
                /\ UNCHANGED << running, panicked >>
    /\ UNCHANGED << wid, ids, map, selfwin, surf, kbfocus >>


\* ------------------------------------------------- daemon: the drain loop
\* A frame read from the daemon: its type, its window and two fields of its
\* body (Keypress: keycode and type; Button: button and type; Focus: type
\* and detail).
Frame(ty, window, a, b) == [ty |-> ty, window |-> window, a |-> a, b |-> b]

KeypressFrame(window, keycode, ty) == Frame("Keypress", window, keycode, ty)
ButtonFrame(window, button, ty) == Frame("Button", window, button, ty)
FocusFrame(window, ty, detail) == Frame("Focus", window, ty, detail)
CloseFrame(window) == Frame("Close", window, 0, 0)
MotionFrame(window) == Frame("Motion", window, 0, 0)

\* An input event handed to the seat, which forwards it to surface s.
InputEv(ev, window, s, code, state) ==
    [ev |-> ev, window |-> window, surface |-> s, size |-> NoSize,
     activated |-> FALSE, code |-> code, state |-> state]

\* u32::saturating_add, on unsigned integers WidBits wide.
saturating_add(a, b) == IF a + b > WidMax THEN WidMax ELSE a + b

\* The location a Motion event at (x, y) for window is delivered at.  The
\* event is moved by the placement of the window and by the geometry held
\* in the SurfaceData of its surface when the role is registered and alive.
motion_location(window, x, y) ==
    IF window \notin DOMAIN map \/ get_surface(map[window].surface) = 0
    THEN <<x, y>>
    ELSE LET e == map[window]
             geometry == surf[e.surface].geometry
             px == saturating_add(x, Max(e.coordinates[1], 0))
             py == saturating_add(y, Max(e.coordinates[2], 0))
         IN  IF geometry.some
             THEN <<saturating_add(px, geometry.x % (WidMax + 1)),
                    saturating_add(py, geometry.y % (WidMax + 1))>>
             ELSE <<px, py>>

\* The surface a Motion event for window focuses: that of a registered, live
\* role, or none.
motion_focus(window) ==
    IF window \in DOMAIN map THEN get_surface(map[window].surface) ELSE 0

\* A key code handed to the seat as the daemon sent it.
keycode_unshifted(keycode) == keycode

\* The key code handed to the seat: event.keycode - 8.
keycode_to_seat(keycode) == keycode - 8

\* Button codes in the order of the daemon's button numbers.
button_code_in_order(button) == 271 + button

\* The evdev code of daemon buttons 1, 2, 3: 0x110, 0x112, 0x111.
button_code(button) ==
    CASE button = 1 -> 272
      [] button = 2 -> 274
      [] button = 3 -> 273

\* What the loop does after a Keypress with a keycode outside [8, 0x108).
bad_keycode_flow == "return"

\* One turn of the drain loop on a frame that changes neither the registry
\* nor a role: what is handed to the clients, and whether the loop goes on
\* to the next frame ("next"), leaves the callback ("return") or panics.
frame_step(f) ==
    LET go == [flow |-> "next", cl |-> << >>, running |-> TRUE]
    IN  CASE f.ty = "Motion" ->
               [go EXCEPT !.cl = << InputEv("motion", f.window,
                                            motion_focus(f.window),
                                            motion_location(f.window, f.a, f.b), 0) >>]
          [] f.ty = "Close" ->
               IF f.window = SelfWindow
               THEN [go EXCEPT !.flow = "return", !.running = close_self_running]
               ELSE IF f.window = 0 THEN [go EXCEPT !.flow = "panic"]
               ELSE IF f.window \in DOMAIN map
               THEN [go EXCEPT !.cl = send_close(f.window)]
               ELSE go
          [] f.ty = "Keypress" ->
               IF f.a < 8 \/ f.a >= 264 THEN [go EXCEPT !.flow = bad_keycode_flow]
               ELSE IF f.b \notin {2, 3} THEN go
               ELSE [go EXCEPT !.cl = << InputEv("key", f.window, kbfocus,
                                                 keycode_to_seat(f.a),
                                                 IF f.b = 2 THEN "Pressed"
                                                 ELSE "Released") >>]
          [] f.ty = "Button" ->
               IF f.b \notin {4, 5} THEN go
               ELSE IF f.a \in 4 .. 7
               THEN [go EXCEPT !.cl = << InputEv("axis", f.window, 0,
                                                 IF f.a \in {4, 5} THEN "VerticalScroll"
                                                 ELSE "HorizontalScroll",
                                                 IF f.a \in {4, 6} THEN -10 ELSE 10) >>]
               ELSE IF f.a \in 1 .. 3
               THEN [go EXCEPT !.cl = << InputEv("button", f.window, 0,
                                                 button_code(f.a),
                                                 IF f.b = 4 THEN "Pressed"
                                                 ELSE "Released") >>]
               ELSE go
          [] f.ty = "Focus" -> go

\* The frames frame_step covers: every frame but Configure and a Focus the
\* handler accepts, which DaemonConfigure and DaemonFocus handle.
Stateless(f) ==
    \/ f.ty \in {"Motion", "Close", "Keypress", "Button"}
    \/ f.ty = "Focus" /\ (f.a \notin {9, 10} \/ f.b > 7)

\* The drain loop from frame k on: read_header returns Pending once the
\* queue is empty.
RECURSIVE drain(_, _, _)
drain(frames, k, acc) ==
    IF k > Len(frames) THEN acc
    ELSE LET r == frame_step(frames[k])
             acc1 == [consumed |-> k,
                      cl |-> acc.cl \o r.cl,
                      running |-> acc.running /\ r.running,
                      panic |-> r.flow = "panic"]
         IN  IF r.flow = "next" THEN drain(frames, k + 1, acc1) ELSE acc1

\* The daemon callback on one wake with the frames queued at that moment.
\* The event records the queue and how many of its frames were consumed.
DaemonWake(frames) ==
    /\ Live
    /\ \A k \in 1 .. Len(frames) : Stateless(frames[k])
    /\ LET r == drain(frames, 1, [consumed |-> 0, cl |-> << >>,
                                  running |-> TRUE, panic |-> FALSE])
       IN  /\ running' = r.running
           /\ panicked' = r.panic
           /\ Record(Ev("Wake", 0, 0, << >>, 0,
                        [frames |-> frames, consumed |-> r.consumed], Pre(0)),
                     << >>, r.cl, << >>, << >>)
    /\ UNCHANGED << wid, ids, map, selfwin, surf, kbfocus >>

\* The state of key i in a Keymap event.  keys holds the eight 32-bit words
\* of the bitmap, each as the set of its set bits, so that
\* (word >> n) & 1 is 1 exactly when n is in the set.
keymap_state(keys, i) ==
    IF (i % 8) \in keys[(i \div 32) + 1] THEN "Pressed" ELSE "Released"

\* The Keymap arm of the daemon callback: one key input per key.
DaemonKeymap(keys) ==
    /\ Live
    /\ Record(Ev("Keymap", 0, 0, << >>, 0, keys, Pre(0)),
              << >>,
              [k \in 1 .. 256 |-> InputEv("key", 0, kbfocus, k - 1,
                                           keymap_state(keys, k - 1))],
              << >>, << >>)
    /\ UNCHANGED << wid, ids, map, selfwin, surf, kbfocus, running, panicked >>

\* ------------------------------------------------- client: xdg-shell
\* The NewToplevel arm of the xdg-shell callback.  The new role has no
\* current size, so the window is created 1 x 1.
NewToplevel(s) ==
    /\ Live
    /\ ~surf[s].alive
    /\ LET role == [surf[s] EXCEPT !.alive = TRUE,
                                   !.psize = NoSize, !.activated = FALSE,
                                   !.sent = FALSE, !.unacked = FALSE,
                                   !.title = "none"]
           fresh == role.window = 0
           r == IF fresh THEN id(wid)
                ELSE [panic |-> FALSE, id |-> role.window, wid |-> wid]
           size == <<1, 1>>
           rect == <<0, 0, Max(size[1], 1), Max(size[2], 1)>>
           ev == Ev("NewToplevel", r.id, s, << >>, 0, << >>, Pre(r.id))
       IN  IF r.panic
           THEN /\ Panic(ev, << >>, << >>, << >>, << >>)
                /\ UNCHANGED << wid, ids, map, surf >>
           ELSE /\ wid' = r.wid
                /\ ids' = IF fresh THEN Append(ids, r.id) ELSE ids
                /\ surf' = [surf EXCEPT ![s] =
                               IF fresh THEN WithSurfaceData(role, r.id) ELSE role]
                /\ IF r.id \in DOMAIN map
                   THEN \* assert!(map.insert(..).is_none()) fails
                        /\ map' = MapPut(map, r.id, NewEntry(s))
                        /\ Panic(ev, << >>, << >>, << >>, << >>)
                   ELSE /\ map' = MapPut(map, r.id, NewEntry(s))
                        /\ Record(ev,
                                  << Msg("Create", r.id, rect, 0),
                                     Msg("Configure", r.id, rect, 0),
                                     Msg("MapInfo", r.id, << >>, 0) >>,
                                  << >>, << >>, << >>)
                        /\ UNCHANGED panicked
    /\ UNCHANGED << selfwin, kbfocus, running >>

\* The AckConfigure arm of the xdg-shell callback: the client acknowledges
\* the configure it was last sent, and the agent reports the size to the
\* daemon.
AckConfigure(s) ==
    /\ Live
    /\ surf[s].alive
    /\ surf[s].unacked
    /\ LET sf == surf[s]
           size == IF sf.psize = NoSize THEN <<1, 1>> ELSE sf.psize
           rect == <<0, 0, Max(size[1], 1), Max(size[2], 1)>>
           ev == Ev("AckConfigure", sf.window, s, << >>, 0, << >>, Pre(sf.window))
       IN  /\ surf' = [surf EXCEPT ![s].unacked = FALSE]
           /\ Record(ev, << Msg("Configure", sf.window, rect, 0) >>,
                     << >>, << >>, << >>)
    /\ UNCHANGED << wid, ids, map, selfwin, kbfocus, running, panicked >>

\* The client destroys the toplevel role of a surface: from then on
\* Kind::get_surface returns none for it and the role's state is gone.  No
\* code of the agent runs.
DestroyRole(s) ==
    /\ Live
    /\ surf[s].alive
    /\ surf' = [surf EXCEPT ![s].alive = FALSE, ![s].psize = NoSize,
                             ![s].activated = FALSE, ![s].sent = FALSE,
                             ![s].unacked = FALSE, ![s].title = "none"]
    /\ Record(Ev("DestroyRole", surf[s].window, s, << >>, 0, << >>,
                 Pre(surf[s].window)),
              << >>, << >>, << >>, << >>)
    /\ UNCHANGED << wid, ids, map, selfwin, kbfocus, running, panicked >>

\* The client sets the title of a toplevel; the tick reads it.
SetTitle(s, title) ==
    /\ Live
    /\ surf[s].alive
    /\ surf[s].title # title
    /\ surf' = [surf EXCEPT ![s].title = title]
    /\ Record(Ev("SetTitle", surf[s].window, s, << >>, 0, title,
                 Pre(surf[s].window)),
              << >>, << >>, << >>, << >>)
    /\ UNCHANGED << wid, ids, map, selfwin, kbfocus, running, panicked >>


\* ------------------------------------------------- client: commit
\* A pool too long for an i32 (i32::try_from of its length fails).
HugePool == -1

NoAttach == [kind |-> "none", buf |-> NoBuffer, scale |-> 0]
NewBuffer(buf, scale) == [kind |-> "new", buf |-> buf, scale |-> scale]
Removed == [kind |-> "removed", buf |-> NoBuffer, scale |-> 0]

BufferData(offset, width, height, stride, pool) ==
    [offset |-> offset, width |-> width, height |-> height, stride |-> stride,
     pool |-> pool]

DamageBuffer(x, y, w, h) == [surface |-> FALSE, x |-> x, y |-> y, w |-> w, h |-> h]
DamageSurface(x, y, w, h) == [surface |-> TRUE, x |-> x, y |-> y, w |-> w, h |-> h]

\* Rust's integer division, which truncates towards zero.
TruncDiv(a, b) == IF a >= 0 THEN a \div b ELSE -((-a) \div b)

Abs(a) == IF a >= 0 THEN a ELSE -a

\* i32::checked_mul: none when the product does not fit.
checked_mul(a, b) ==
    IF a = 0 \/ b = 0 THEN [some |-> TRUE, val |-> 0]
    ELSE IF Abs(a) > I32Max \div Abs(b) THEN [some |-> FALSE, val |-> 0]
    ELSE [some |-> TRUE, val |-> a * b]

\* SurfaceData::process_new_buffers.
process_new_buffers(sf, attach) ==
    IF attach.kind = "new"
    THEN LET w == attach.buf.width
             h == attach.buf.height
         IN  IF ~(w > 0 /\ h > 0)
             THEN [sf |-> sf, out |-> << >>, panic |-> TRUE]
             ELSE [sf |-> [sf EXCEPT !.hasbuf = TRUE, !.buffer = attach.buf,
                                     !.buffer_scale = attach.scale],
                   out |-> << Msg("WindowDump", sf.window, <<0, 0, w, h>>, 0) >>,
                   panic |-> FALSE]
    ELSE [sf |-> [sf EXCEPT !.hasbuf = FALSE, !.buffer = NoBuffer],
          out |-> << >>, panic |-> FALSE]

\* A check that lets a buffer start anywhere in its pool.
sanitize_any_offset(b) ==
    IF b.pool = HugePool THEN "invalid_fd"
    ELSE IF \/ b.height <= 0
            \/ b.width <= 0
            \/ TruncDiv(b.stride, BYTES_PER_PIXEL) < b.width
            \/ LET product == checked_mul(b.stride, b.height)
               IN  IF product.some THEN b.pool < product.val ELSE TRUE
    THEN "invalid_stride"
    ELSE "ok"

\* The check between SANITIZE START and SANITIZE END on the buffer: the
\* error it posts, or "ok".
sanitize_buffer(b) ==
    IF b.pool = HugePool THEN "invalid_fd"
    ELSE IF \/ b.offset < 0
            \/ b.height <= 0
            \/ b.width <= 0
            \/ TruncDiv(b.stride, BYTES_PER_PIXEL) < b.width
            \/ LET product == checked_mul(b.stride, b.height)
               IN  IF product.some
                   THEN b.pool < product.val \/ b.offset > b.pool - product.val
                   ELSE TRUE
    THEN "invalid_stride"
    ELSE "ok"

\* Damage::Surface rectangles are scaled to buffer coordinates.
to_buffer(d, scale) ==
    IF d.surface
    THEN [x |-> d.x * scale, y |-> d.y * scale, w |-> d.w * scale, h |-> d.h * scale]
    ELSE [x |-> d.x, y |-> d.y, w |-> d.w, h |-> d.h]

\* The check on one damage rectangle.
damage_invalid(r, width, height) ==
    \/ r.w <= 0
    \/ r.h <= 0
    \/ r.x < 0
    \/ r.y < 0
    \/ r.x > width
    \/ r.y > height

\* The rectangle taken as the client gave it, without clipping.
clip_none(r, width, height) == [x |-> r.x, y |-> r.y, w |-> r.w, h |-> r.h]

\* The rectangle clipped to the buffer, as the code computes it: the height
\* is clipped from the requested width.
clip(r, width, height) ==
    [x |-> r.x, y |-> r.y,
     w |-> Min(r.w, width - r.x),
     h |-> Min(r.w, height - r.y)]

\* The geometry offset: source origin and the reduced extent.
geometry_shift(c, geometry) ==
    LET shiftx == geometry.some /\ geometry.x > 0 /\ c.w > geometry.x
        shifty == geometry.some /\ geometry.y > 0 /\ c.h > geometry.y
    IN  [x |-> c.x, y |-> c.y,
         w |-> IF shiftx THEN c.w - geometry.x ELSE c.w,
         h |-> IF shifty THEN c.h - geometry.y ELSE c.h,
         source_x |-> IF shiftx THEN c.x + geometry.x ELSE c.x,
         source_y |-> IF shifty THEN c.y + geometry.y ELSE c.y]

\* The message sent after each copied row.
row_message(window, g) == Msg("ShmImage", window, <<g.x, g.y, g.w, g.w>>, 0)

\* The copy of one damage rectangle: the rows read and written, the messages
\* sent, and whether slicing the pool panicked.  A row whose read would leave
\* the pool is attempted, panics, and is not written (done = FALSE).
copy_rect(window, b, g) ==
    LET start == b.offset + BYTES_PER_PIXEL * g.source_x + g.source_y * b.stride
        bytes_to_write == BYTES_PER_PIXEL * g.w
        bad == {i \in 0 .. (g.h - 1) : start + i * b.stride + bytes_to_write > b.pool}
        n == IF start > b.pool THEN 0
             ELSE IF bad = {} THEN g.h
             ELSE CHOOSE i \in bad : \A j \in bad : i <= j
        tried == IF start <= b.pool /\ bad # {} THEN n + 1 ELSE n
    IN  [writes |-> [k \in 1 .. tried |->
                        [window |-> window,
                         done |-> k <= n,
                         dst |-> BYTES_PER_PIXEL * (g.x + ((k - 1) + g.y) * b.width),
                         len |-> bytes_to_write,
                         src |-> start + (k - 1) * b.stride]],
         out |-> [k \in 1 .. n |-> row_message(window, g)],
         panic |-> start > b.pool \/ bad # {}]

RECURSIVE damage_loop(_, _, _, _, _)
damage_loop(window, sf, geometry, rects, acc) ==
    IF rects = << >> THEN acc
    ELSE LET b == sf.buffer
             r == to_buffer(Head(rects), sf.buffer_scale)
         IN  IF damage_invalid(r, b.width, b.height)
             THEN [acc EXCEPT !.err = Append(@, "invalid_stride")]
             ELSE LET c == copy_rect(window, b,
                                     geometry_shift(clip(r, b.width, b.height), geometry))
                      acc1 == [acc EXCEPT !.out = @ \o c.out,
                                          !.writes = @ \o c.writes,
                                          !.panic = c.panic]
                  IN  IF c.panic THEN acc1
                      ELSE damage_loop(window, sf, geometry, Tail(rects), acc1)

\* SurfaceData::update_buffer.
update_buffer(sf, attach, damage, geometry) ==
    LET p == IF attach.kind = "none"
             THEN [sf |-> sf, out |-> << >>, panic |-> FALSE]
             ELSE process_new_buffers(sf, attach)
        acc == [sf |-> p.sf, out |-> p.out, err |-> << >>, writes |-> << >>,
                panic |-> p.panic]
    IN  IF p.panic \/ damage = << >> \/ ~p.sf.hasbuf THEN acc
        ELSE LET verdict == sanitize_buffer(p.sf.buffer)
             IN  IF verdict # "ok" THEN [acc EXCEPT !.err = << verdict >>]
                 ELSE damage_loop(p.sf.window, p.sf, geometry, damage, acc)

\* wl_subcompositor.get_subsurface: surface s becomes the parent of a new
\* subsurface, which has no SurfaceData yet.  No code of the agent runs.
GetSubsurface(s) ==
    /\ Live
    /\ surf[s].subsurface = "none"
    /\ surf' = [surf EXCEPT ![s].subsurface = "new"]
    /\ Record(Ev("GetSubsurface", surf[s].window, s, << >>, 0, << >>, Pre(0)),
              << >>, << >>, << >>, << >>)
    /\ UNCHANGED << wid, ids, map, selfwin, kbfocus, running, panicked >>

\* surface_commit for the subsurface of s, which attaches no buffer.  A
\* synchronized subsurface is skipped (is_sync_subsurface).  Otherwise the
\* walk starts at the subsurface with no parent id, so a subsurface without
\* SurfaceData gets one, with a window id of its own and a Create.
CommitSubsurface(s, sync) ==
    /\ Live
    /\ surf[s].subsurface # "none"
    /\ LET fresh == ~sync /\ surf[s].subsurface = "new"
           r == IF fresh THEN id(wid)
                ELSE [panic |-> FALSE, id |-> 0, wid |-> wid]
           ev == Ev("CommitSubsurface", r.id, s, << >>, 0, sync, Pre(0))
       IN  IF r.panic
           THEN /\ Panic(ev, << >>, << >>, << >>, << >>)
                /\ UNCHANGED << wid, ids, surf >>
           ELSE /\ wid' = r.wid
                /\ ids' = IF fresh THEN Append(ids, r.id) ELSE ids
                /\ surf' = IF fresh THEN [surf EXCEPT ![s].subsurface = "data"]
                           ELSE surf
                /\ Record(ev,
                          IF fresh
                          THEN << Msg("Create", r.id, <<0, 0, 256, 256>>, 0) >>
                          ELSE << >>,
                          << >>, << >>, << >>)
                /\ UNCHANGED panicked
    /\ UNCHANGED << map, selfwin, kbfocus, running >>

\* surface_commit for a surface that is not a subsurface.  The walk handles
\* the surface itself and then its subsurface, which is stacked above it:
\* a subsurface without SurfaceData is reached with the id of its parent
\* and fails assert!(parent.is_none()).
CommitFrames(s, attach, damage, geometry, frames) ==
    /\ Live
    /\ surf[s].frame_callbacks + frames <= MaxCallbacks
    /\ LET fresh == surf[s].window = 0
           r == IF fresh THEN id(wid)
                ELSE [panic |-> FALSE, id |-> surf[s].window, wid |-> wid]
           ev == Ev("Commit", r.id, s, << >>, 0,
                    [attach |-> attach, damage |-> damage, geometry |-> geometry],
                    Pre(r.id))
       IN  IF r.panic
           THEN /\ Panic(ev, << >>, << >>, << >>, << >>)
                /\ UNCHANGED << wid, ids, surf >>
           ELSE LET sf == IF fresh THEN WithSurfaceData(surf[s], r.id) ELSE surf[s]
                    create == IF fresh
                              THEN << Msg("Create", r.id, <<0, 0, 256, 256>>, 0) >>
                              ELSE << >>
                    u == update_buffer(sf, attach, damage, geometry)
                IN  /\ wid' = r.wid
                    /\ ids' = IF fresh THEN Append(ids, r.id) ELSE ids
                    /\ surf' = [surf EXCEPT ![s] =
                                   [u.sf EXCEPT !.xdg_geometry = geometry,
                                                !.frame_callbacks = @ + frames]]
                    /\ panicked' = (u.panic \/ sf.subsurface = "new")
                    /\ Record(ev, create \o u.out, << >>, u.err, u.writes)
    /\ UNCHANGED << map, selfwin, kbfocus, running >>


\* A commit that requests no frame callback.
Commit(s, attach, damage, geometry) == CommitFrames(s, attach, damage, geometry, 0)

\* ------------------------------------------------------------- tick
\* A drain that fires at most one of the pending frame callbacks.
frame_done_first(window, s, n) ==
    [j \in 1 .. Min(n, 1) |-> ClientEv("frame_done", window, s, NoSize, FALSE)]

\* attrs.frame_callbacks.drain(..): done is sent for each of the n pending
\* frame callbacks of surface s.
frame_done(window, s, n) ==
    [j \in 1 .. n |-> ClientEv("frame_done", window, s, NoSize, FALSE)]

\* The first loop of the tick callback, over the registry in key order:
\* dead roles are collected, live ones have their title sent.  Copying a
\* title longer than 128 bytes into the 128-byte buffer panics.
RECURSIVE tick_scan(_, _)
tick_scan(k, acc) ==
    IF k > NSurf + 1 \/ acc.panic THEN acc
    ELSE IF k \notin DOMAIN map THEN tick_scan(k + 1, acc)
    ELSE LET sf == surf[map[k].surface]
         IN  IF get_surface(map[k].surface) = 0
             THEN tick_scan(k + 1, [acc EXCEPT !.dead = Append(@, k)])
             ELSE IF sf.title = "long"
             THEN [acc EXCEPT !.panic = TRUE]
             ELSE tick_scan(k + 1,
                     [acc EXCEPT
                        !.out = IF sf.title = "short"
                                THEN Append(@, Msg("SetTitle", k, << >>, 0))
                                ELSE @,
                        !.fired = @ \o frame_done(k, map[k].surface, sf.frame_callbacks),
                        !.drained = @ \cup {map[k].surface}])

\* A second loop that visits every dead entry twice.
to_destroy_twice(dead) == dead \o dead

\* Which of the collected dead entries the second loop destroys.
to_destroy(dead) == dead

\* The second loop of the tick callback: Destroy is sent for each dead
\* entry and the entry leaves the registry.
tick_destroy(dead) ==
    [out |-> [j \in 1 .. Len(to_destroy(dead)) |->
                 Msg("Destroy", to_destroy(dead)[j], << >>, 0)],
     gone |-> {dead[j] : j \in 1 .. Len(dead)}]

\* The periodic tick callback.  The event records which keys left the
\* registry.
Tick ==
    /\ Live
    /\ LET scan == tick_scan(FirstWid, [out |-> << >>, dead |-> << >>, panic |-> FALSE,
                                        fired |-> << >>, drained |-> {}])
           d == tick_destroy(scan.dead)
       IN  /\ surf' = [s \in SURFS |->
                          IF s \in scan.drained
                          THEN [surf[s] EXCEPT !.frame_callbacks = 0]
                          ELSE surf[s]]
           /\ IF scan.panic
              THEN /\ Panic(Ev("Tick", 0, 0, << >>, 0, {}, Pre(0)),
                            scan.out, scan.fired, << >>, << >>)
                   /\ UNCHANGED map
              ELSE /\ map' = MapRemove(map, d.gone)
                   /\ Record(Ev("Tick", 0, 0, << >>, 0, d.gone, Pre(0)),
                             scan.out \o d.out, scan.fired, << >>, << >>)
                   /\ UNCHANGED panicked
    /\ UNCHANGED << wid, ids, selfwin, kbfocus, running >>

\* ------------------------------------------------- borrows of QubesData
\* RefCell<QubesData>: b counts the shared borrows held, -1 stands for the
\* exclusive borrow.  The result is TRUE when a borrow in the trace is
\* requested while a borrow it excludes is held (BorrowError or
\* BorrowMutError, a panic).
RECURSIVE borrow_conflict(_, _)
borrow_conflict(trace, b) ==
    IF trace = << >> THEN FALSE
    ELSE LET op == Head(trace)
             rest == Tail(trace)
         IN  CASE op = "borrow_mut" ->
                      IF b # 0 THEN TRUE ELSE borrow_conflict(rest, -1)
               [] op = "borrow" ->
                      IF b < 0 THEN TRUE ELSE borrow_conflict(rest, b + 1)
               [] op = "drop_mut" -> borrow_conflict(rest, 0)
               [] OTHER -> borrow_conflict(rest, b - 1)

\* A NewToplevel arm that still holds the borrow of the map insertion when
\* it borrows the agent.
new_toplevel_borrows_held(fresh) ==
    (IF fresh THEN << "borrow_mut", "drop_mut" >> ELSE << >>)
        \o << "borrow_mut", "borrow_mut", "drop_mut", "drop_mut" >>

\* The borrows of the NewToplevel arm: QubesData::data for a surface
\* without SurfaceData (a temporary around id()), a temporary around
\* map.insert, then the borrow of the agent held to the end of the arm.
new_toplevel_borrows(fresh) ==
    (IF fresh THEN << "borrow_mut", "drop_mut" >> ELSE << >>)
        \o << "borrow_mut", "drop_mut", "borrow_mut", "drop_mut" >>

\* The borrows of the shared QubesData a callback requests and releases,
\* in order.  The daemon callback and the tick borrow it exclusively at
\* their top and hold it to their end; surface_commit reads the log through
\* a shared temporary, takes two exclusive temporaries when it creates the
\* SurfaceData, and one around update_buffer; role destruction and
\* set_title are served without the QubesData.
callback_borrows(ty, fresh) ==
    CASE ty \in {"Configure", "ConfigureFails", "Focus", "Close", "Wake",
                 "Keymap", "Tick", "AckConfigure"} ->
             << "borrow_mut", "drop_mut" >>
      [] ty = "NewToplevel" -> new_toplevel_borrows(fresh)
      [] ty \in {"Commit", "CommitSubsurface"} ->
             << "borrow", "drop" >>
                 \o (IF fresh
                     THEN << "borrow_mut", "drop_mut", "borrow_mut", "drop_mut" >>
                     ELSE << >>)
                 \o << "borrow_mut", "drop_mut" >>
      [] OTHER -> << >>

\* ------------------------------------------------- the environment
\* Window ids the daemon names in its events: none (0), the self-window,
\* and every id a surface can have.
DaemonWins == 0 .. (NSurf + 1)

\* Daemon Configure bodies: two rectangles that differ in size and in
\* override_redirect, at a placement that is not the default one.
ConfigA == [rect |-> <<1, 2, 1, 1>>, ovr |-> 0]
ConfigB == [rect |-> <<1, 2, 2, 1>>, ovr |-> 1]

\* A valid 2 x 1 buffer at the start of an 8-byte pool, and a damage
\* rectangle covering it.
SmallBuffer == BufferData(0, 2, 1, 8, 8)
SmallDamage == << DamageBuffer(0, 0, 2, 1) >>
Commits == { [attach |-> NoAttach, damage |-> SmallDamage],
             [attach |-> NewBuffer(SmallBuffer, 1), damage |-> << >>],
             [attach |-> NewBuffer(SmallBuffer, 1), damage |-> SmallDamage],
             [attach |-> Removed, damage |-> << >>] }

\* The life of windows: roles come and go, surfaces are committed, the
\* daemon configures and closes windows, the tick reclaims dead entries.
Next ==
    \/ \E w \in DaemonWins : DaemonConfigure(w, ConfigA.rect, ConfigA.ovr)
    \/ \E w \in DaemonWins : DaemonClose(w)
    \/ \E s \in SURFS : NewToplevel(s)
    \/ \E s \in SURFS : DestroyRole(s)
    \/ \E s \in SURFS, c \in Commits : Commit(s, c.attach, c.damage, NoGeometry)
    \/ Tick
    \/ Return

Spec == Init /\ [][Next]_vars

\* The reclaiming of dead entries: roles come and go and get titles,
\* surfaces get buffers, the daemon closes windows, the tick fires.
Titles == {"short", "long"}

NextTick ==
    \/ \E s \in SURFS : NewToplevel(s)
    \/ \E s \in SURFS : DestroyRole(s)
    \/ \E s \in SURFS, title \in Titles : SetTitle(s, title)
    \/ \E w \in DaemonWins : DaemonClose(w)
    \/ \E s \in SURFS : Commit(s, NewBuffer(SmallBuffer, 1), << >>, NoGeometry)
    \/ Tick
    \/ Return

SpecTick == Init /\ [][NextTick]_vars

\* The timer source re-arms itself on every firing and every callback runs
\* to completion, so while the main loop runs the tick is dispatched again
\* and again and every callback returns.
FairSpec == SpecTick /\ SF_vars(Tick) /\ WF_vars(Return)

\* Frame callbacks: roles come and go, commits request one frame callback
\* each, titles change, the daemon closes a window, and the timer fires
\* under the same fairness.
NextFrames ==
    \/ \E s \in SURFS : NewToplevel(s)
    \/ \E s \in SURFS : DestroyRole(s)
    \/ \E s \in SURFS : CommitFrames(s, NoAttach, << >>, NoGeometry, 1)
    \/ \E s \in SURFS : SetTitle(s, "long")
    \/ DaemonClose(SelfWindow)
    \/ Tick
    \/ Return

\* Surface trees: a surface gets a subsurface, and the two are committed
\* in either order, the subsurface synchronized or not.
NextTree ==
    \/ \E s \in SURFS : NewToplevel(s)
    \/ \E s \in SURFS : DestroyRole(s)
    \/ \E s \in SURFS : GetSubsurface(s)
    \/ \E s \in SURFS, sync \in BOOLEAN : CommitSubsurface(s, sync)
    \/ \E s \in SURFS : Commit(s, NoAttach, << >>, NoGeometry)
    \/ \E s \in SURFS : Commit(s, NewBuffer(SmallBuffer, 1), << >>, NoGeometry)
    \/ \E s \in SURFS : CommitFrames(s, NoAttach, << >>, NoGeometry, 1)
    \/ Return

SpecTree == Init /\ [][NextTree]_vars

FairFrames == Init /\ [][NextFrames]_vars /\ SF_vars(Tick) /\ WF_vars(Return)

\* The size negotiation: the daemon configures and focuses windows, the
\* client acknowledges.
FocusTypes == {9, 10, 11}

NextConfigure ==
    \/ \E w \in DaemonWins, c \in {ConfigA, ConfigB} : DaemonConfigure(w, c.rect, c.ovr)
    \/ \E size \in {<<1, 2>>, <<4, 4>>, <<2 ^ (WidBits - 3), 2 ^ (WidBits - 3)>>} :
          DaemonConfigure(SelfWindow, <<1, 2, size[1], size[2]>>, 0)
    \/ \E w \in DaemonWins, ty \in FocusTypes : DaemonFocus(w, ty, 0, 0)
    \/ \E s \in SURFS : NewToplevel(s)
    \/ \E s \in SURFS : AckConfigure(s)
    \/ \E s \in SURFS : DestroyRole(s)
    \/ Return

SpecConfigure == Init /\ [][NextConfigure]_vars

\* The id allocator alone: QubesData::data is called for surface after
\* surface until the id space is used up.
NewSurfaceData ==
    /\ ~panicked
    /\ LET r == id(wid)
       IN  /\ wid' = r.wid
           /\ ids' = IF r.panic THEN ids ELSE Append(ids, r.id)
           /\ panicked' = r.panic
    /\ UNCHANGED << map, selfwin, surf, kbfocus, running, seen,
                    lastEv, lastOut, lastClient, lastErr, lastWrites >>

SpecId == Init /\ [][NewSurfaceData]_vars


\* Focus events of every kind, on windows that come and go.
FocusModes == {0, 1}
FocusDetails == {0, 8}

NextFocus ==
    \/ /\ Live
       /\ \E w \in DaemonWins, ty \in FocusTypes, mode \in FocusModes,
             detail \in FocusDetails : DaemonFocus(w, ty, mode, detail)
    \/ \E s \in SURFS : NewToplevel(s)
    \/ \E s \in SURFS : DestroyRole(s)
    \/ Return

SpecFocus == Init /\ [][NextFocus]_vars

\* Daemon events for window ids that are not, not yet, or no longer in the
\* registry: the ids surfaces can have and one that is never allocated.
ClientWins == FirstWid .. (NSurf + 2)
Keycodes == {7, 38}

NextUnknown ==
    \/ \E w \in ClientWins : DaemonConfigure(w, ConfigA.rect, ConfigA.ovr)
    \/ \E w \in ClientWins : DaemonClose(w)
    \/ \E w \in ClientWins, ty \in {9, 10} : DaemonFocus(w, ty, 0, 0)
    \/ \E w \in ClientWins : DaemonWake(<< MotionFrame(w) >>)
    \/ \E w \in ClientWins, k \in Keycodes : DaemonWake(<< KeypressFrame(w, k, 2) >>)
    \/ \E s \in SURFS : NewToplevel(s)
    \/ \E s \in SURFS : DestroyRole(s)
    \/ Tick
    \/ Return

SpecUnknown == Init /\ [][NextUnknown]_vars

\* The daemon socket fails under a Configure, on windows that come and go.
NextIo ==
    \/ \E w \in ClientWins, c \in {ConfigA, ConfigB} : DaemonConfigure(w, c.rect, c.ovr)
    \/ \E w \in ClientWins, k \in 1 .. 2 : DaemonConfigureFails(w, ConfigA.rect, ConfigA.ovr, k)
    \/ \E s \in SURFS : NewToplevel(s)
    \/ \E s \in SURFS : DestroyRole(s)
    \/ Tick
    \/ Return

SpecIo == Init /\ [][NextIo]_vars

\* The drain loop alone: wakes with up to MaxFrames queued frames of input,
\* close and rejected focus events, wakes with one Keypress or Button frame
\* of every kind, and Keymap events with one bit set.
DrainFrames ==
    { KeypressFrame(2, 8, 2), KeypressFrame(2, 7, 2), KeypressFrame(2, 264, 3),
      KeypressFrame(2, 9, 1),
      ButtonFrame(2, 1, 4), ButtonFrame(2, 1, 6), ButtonFrame(2, 8, 5),
      ButtonFrame(2, 4, 4),
      FocusFrame(2, 11, 0), FocusFrame(2, 9, 8),
      CloseFrame(SelfWindow), MotionFrame(2) }

RECURSIVE Queues(_)
Queues(n) ==
    IF n = 0 THEN { << >> }
    ELSE { Append(q, f) : q \in Queues(n - 1), f \in DrainFrames }

WakeQueues == UNION { Queues(n) : n \in 1 .. MaxFrames }

NextDrain ==
    \/ /\ Live
       /\ \E frames \in WakeQueues : DaemonWake(frames)
    \/ \E k \in {7, 8, 38, 263, 264}, ty \in 1 .. 3 :
          DaemonWake(<< KeypressFrame(2, k, ty) >>)
    \/ \E b \in 0 .. 8, ty \in 4 .. 6 : DaemonWake(<< ButtonFrame(2, b, ty) >>)
    \/ \E j \in 0 .. 255 :
          DaemonKeymap([w \in 1 .. 8 |-> IF w = (j \div 32) + 1 THEN {j % 32} ELSE {}])
    \/ Return

SpecDrain == Init /\ [][NextDrain]_vars

\* The commit path alone, on untrusted buffers and damage of many shapes.
\* Well-formed buffers: every size up to BufDim x BufDim, tight at the start
\* of the pool or padded at offset 4, in a pool that ends where they end.
Layouts == { [offset |-> 0, pad |-> 0], [offset |-> 4, pad |-> 4] }

GoodBuffers ==
    { BufferData(l.offset, w, h, 4 * w + l.pad, l.offset + (4 * w + l.pad) * h) :
        l \in Layouts, w \in 1 .. BufDim, h \in 1 .. BufDim }

\* Buffers the sanitizer must reject, and one the attach itself rejects.
BadBuffers ==
    { BufferData(0, 1, 2, 1073741824, 8),          \* stride * height overflows
      BufferData(0, 1, 3, 1073741824, I32Max),     \* the same, in a large pool
      BufferData(0, 2, 2, 8, 12),                  \* pool too short
      BufferData(8, 1, 1, 4, 8),                   \* offset past the end
      BufferData(0, 2, 1, 4, 8),                   \* stride shorter than a row
      BufferData(-4, 1, 1, 4, 8),                  \* negative offset
      BufferData(0, 1, 1, 4, HugePool),            \* pool longer than an i32
      BufferData(0, 1, 0, 4, 4) }                  \* no rows

BufAttaches ==
    { NewBuffer(b, 1) : b \in GoodBuffers \cup BadBuffers }
        \cup { NewBuffer(BufferData(0, BufDim, BufDim, 4 * BufDim, 4 * BufDim * BufDim), 2),
               Removed, NoAttach }

Coords == -1 .. (BufDim + 1)
Extents == 0 .. (BufDim + 1)

BufRects ==
    { DamageBuffer(x, y, w, h) : x \in Coords, y \in Coords, w \in Extents, h \in Extents }
        \cup { DamageSurface(x, y, w, h) : x \in 0 .. 1, y \in 0 .. 1, w \in 1 .. 2, h \in 1 .. 2 }

\* Damage lists: every single rectangle, and pairs that put a good or a bad
\* rectangle first.
PairRects == { DamageBuffer(0, 0, 1, 1), DamageBuffer(0, 0, 0, 1), DamageBuffer(1, 0, 1, 2) }

BufDamages ==
    { << r >> : r \in BufRects } \cup { << r, q >> : r \in PairRects, q \in PairRects }

BufGeometries == { NoGeometry, Geometry(1, 0), Geometry(0, 1), Geometry(1, 1) }

\* A commit either attaches a buffer to a surface that has none, with any
\* damage, or damages the buffer the surface has.
NextBuf ==
    \/ /\ Live
       /\ ~surf[1].hasbuf
       /\ \E a \in BufAttaches, g \in BufGeometries, d \in BufDamages \cup { << >> } :
             Commit(1, a, d, g)
    \/ /\ Live
       /\ surf[1].hasbuf
       /\ \E d \in BufDamages : Commit(1, NoAttach, d, surf[1].xdg_geometry)
    \/ /\ surf[1].hasbuf
       /\ Commit(1, Removed, << >>, NoGeometry)
    \/ Return

SpecBuf == Init /\ [][NextBuf]_vars

\* Pointer motion over windows that the daemon has placed and whose
\* surfaces have committed a window geometry or none.
NextMotion ==
    \/ \E w \in ClientWins, x \in {-1, 1} : DaemonConfigure(w, <<x, 2, 1, 1>>, 0)
    \/ \E w \in ClientWins, x \in {0, WidMax} :
          DaemonWake(<< Frame("Motion", w, x, 3) >>)
    \/ \E s \in SURFS, g \in {NoGeometry, Geometry(1, 0)} :
          Commit(s, NoAttach, << >>, g)
    \/ \E s \in SURFS : NewToplevel(s)
    \/ \E s \in SURFS : DestroyRole(s)
    \/ Return

SpecMotion == Init /\ [][NextMotion]_vars


\* =================================================================
\* Properties
\* =================================================================

\* ---------------------------------------------------------------- C1
\* C1: the ids QubesData::id returns are strictly increasing, start at 2,
\* are never 0 or 1 and never repeat; when the counter cannot advance the
\* allocator panics with the counter at its largest value instead of
\* wrapping.  Checked under SpecId.
C1_IdsIncrease ==
    /\ Len(ids) > 0 => ids[1] = 2
    /\ \A k \in 1 .. Len(ids) : ids[k] \notin {0, 1} /\ ids[k] <= WidMax
    /\ \A j, k \in 1 .. Len(ids) : j < k => ids[j] < ids[k]
    /\ wid >= FirstWid /\ wid <= WidMax
    /\ panicked => wid = WidMax

\* The id space is used up: every id below the largest was handed out and
\* the next call panicked.
C1_Exhausted ==
    /\ panicked
    /\ Len(ids) = WidMax - FirstWid
    /\ ids[Len(ids)] = WidMax - 1

\* ---------------------------------------------------------------- C2
IsEcho(m, ev) ==
    m = Msg("Configure", ev.window, ev.rect, ev.ovr)

\* C2: a daemon Configure for the self-window or for a registered client
\* window is answered by exactly one Configure for that window, with the
\* same rectangle and override_redirect, and that echo precedes every
\* ShmImage the same event triggers.  Checked under SpecConfigure; the code
\* violates it.
C2_EchoOnceBeforeImage ==
    (lastEv.ty = "Configure" /\ (lastEv.window = SelfWindow \/ lastEv.pre.registered))
        => /\ Count(lastOut, "Configure", lastEv.window) = 1
           /\ \E k \in 1 .. Len(lastOut) : IsEcho(lastOut[k], lastEv)
           /\ \A k, j \in 1 .. Len(lastOut) :
                 (/\ IsEcho(lastOut[k], lastEv)
                  /\ lastOut[j].ty = "ShmImage"
                  /\ lastOut[j].window = lastEv.window) => k < j

\* ---------------------------------------------------------------- C3
\* The size a configure carries on the wire: an unset size is sent as 0 x 0.
WireSize(size) == IF size = NoSize THEN <<0, 0>> ELSE size

IsFirstConfigure(k) ==
    /\ ~lastEv.pre.sent
    /\ \A j \in 1 .. (k - 1) :
          ~(lastClient[j].ev = "configure" /\ lastClient[j].window = lastClient[k].window)

\* C3: the first configure a toplevel is sent has size 0 x 0, and every later
\* one carries the size the daemon most recently advertised for the window,
\* whatever the order of daemon Configure and Focus events.  Checked under
\* SpecConfigure; the code violates it.
C3_ConfigureSizes ==
    \A k \in 1 .. Len(lastClient) :
        lastClient[k].ev = "configure" =>
            LET adv == Advertised(seen, lastEv, lastClient[k].window)
            IN  IF IsFirstConfigure(k)
                THEN WireSize(lastClient[k].size) = <<0, 0>>
                ELSE adv # NoSize => WireSize(lastClient[k].size) = adv

\* ---------------------------------------------------------------- C4
\* The buffer a commit works on: the one the surface holds once the commit's
\* attach, if any, is processed.
CommitBuffer == surf[lastEv.surface].buffer

RowsInBounds(b) ==
    \A k \in 1 .. Len(lastWrites) :
        LET row == lastWrites[k]
        IN  /\ row.src >= 0
            /\ row.src + row.len <= b.pool
            /\ row.done => (row.dst >= 0 /\
                            row.dst + row.len <= b.width * b.height * BYTES_PER_PIXEL)

\* C4: in a commit, every row written to the shared framebuffer lies within
\* [0, width * height * 4) of the buffer, and every row read from the
\* client's pool lies within the pool.  Checked under SpecBuf.
C4_RowsInBounds ==
    lastEv.ty = "Commit" => RowsInBounds(CommitBuffer)

\* A commit with a geometry offset copied two rows, the last of which ends
\* at the last byte of the framebuffer and of the pool.
C4_CopiedToTheEnd ==
    /\ lastEv.ty = "Commit"
    /\ lastEv.arg.geometry.some
    /\ Len(lastWrites) >= 2
    /\ \A k \in 1 .. Len(lastWrites) : lastWrites[k].done
    /\ LET row == lastWrites[Len(lastWrites)]
       IN  /\ row.dst + row.len = CommitBuffer.width * CommitBuffer.height * BYTES_PER_PIXEL
           /\ row.src + row.len = CommitBuffer.pool

\* ---------------------------------------------------------------- C5
\* C5: every ShmImage a commit sends names a rectangle inside the attached
\* W x H buffer: x + width <= W and y + height <= H.  Checked under SpecBuf;
\* the code violates it.
C5_DamageInsideBuffer ==
    lastEv.ty = "Commit" =>
        \A k \in 1 .. Len(lastOut) :
            lastOut[k].ty = "ShmImage" =>
                LET r == lastOut[k].rect
                IN  /\ r[1] + r[3] <= CommitBuffer.width
                    /\ r[2] + r[4] <= CommitBuffer.height

\* ---------------------------------------------------------------- C6
\* stride * height does not fit an i32.
StrideOverflows(b) == b.height > 0 /\ b.stride > I32Max \div b.height

\* C6: a commit with damage on a buffer whose stride * height overflows an
\* i32 posts invalid_stride exactly once and sends the daemon nothing, no
\* WindowDump and no ShmImage, whether or not the commit attaches the
\* buffer.  Checked under SpecBuf; the code violates it.
C6_OverflowSendsNothing ==
    (/\ lastEv.ty = "Commit"
     /\ lastEv.arg.damage # << >>
     /\ surf[lastEv.surface].hasbuf
     /\ StrideOverflows(CommitBuffer))
        => /\ lastErr = << "invalid_stride" >>
           /\ lastOut = << >>

\* ---------------------------------------------------------------- C7
\* The Destroy messages a step sends for window i.
Destroys(out, i) == Count(out, "Destroy", i)

Halted == ~running \/ panicked

DeadEntry(i) == i \in DOMAIN map /\ ~surf[map[i].surface].alive

Reclaimed(i) == i \notin DOMAIN map /\ Destroys(lastOut, i) = 1

\* C8: once the role of a registered window is destroyed then, as long as
\* the main loop keeps running and the tick keeps firing, the entry is
\* eventually removed by a tick that sends its Destroy exactly once.
\* Checked under FairSpec.
C8_DeadEntryReclaimed ==
    \A i \in Ids : DeadEntry(i) ~> (Reclaimed(i) \/ Halted)

\* The tick has just reclaimed the window of a surface whose role is gone,
\* and the main loop is still running.
C8_ReclaimedWhileRunning ==
    /\ ~Halted
    /\ \E s \in SURFS : /\ surf[s].window # 0
                        /\ ~surf[s].alive
                        /\ Reclaimed(surf[s].window)

\* ---------------------------------------------------------------- C9
\* A daemon Configure for a registered window that was already configured.
ConfigureOfConfigured ==
    /\ lastEv.ty = "Configure"
    /\ lastEv.window # SelfWindow
    /\ lastEv.pre.registered
    /\ lastEv.pre.has_configured

\* C9: for a registered window with has_configured set, a daemon Configure
\* whose size equals the pending size sends the client no configure, and
\* processing the same Configure twice in a row sends the client at most one
\* configure.  Checked under SpecConfigure.
C9_NoRepeatedConfigure ==
    ConfigureOfConfigured =>
        /\ RectSize(lastEv.rect) = lastEv.pre.psize => lastClient = << >>
        /\ Len(lastClient)
             + Len(process_client_configure(lastEv.window, lastEv.rect, lastEv.ovr).cl)
             <= 1

\* A Configure with the pending size arrived for a live, configured window
\* and was not passed on.
C9_Suppressed ==
    /\ ConfigureOfConfigured
    /\ lastEv.pre.alive
    /\ RectSize(lastEv.rect) = lastEv.pre.psize
    /\ lastClient = << >>

\* ---------------------------------------------------------------- C10
SentBefore(ty, i, k) ==
    \E j \in 1 .. (k - 1) : lastOut[j].ty = ty /\ lastOut[j].window = i

\* C10: the daemon sees nothing for a window id before that id's Create, and
\* no ShmImage for an id before its first WindowDump.  Checked under Spec;
\* the code violates it.
C10_CreateAndDumpFirst ==
    \A k \in 1 .. Len(lastOut) :
        LET i == lastOut[k].window
        IN  i \in Ids =>
              /\ lastOut[k].ty # "Create" =>
                    (seen[i].created > 0 \/ SentBefore("Create", i, k))
              /\ lastOut[k].ty = "ShmImage" =>
                    (seen[i].dumped \/ SentBefore("WindowDump", i, k))

\* ---------------------------------------------------------------- C11
\* The three messages that announce window i with rectangle rect.
Announcement(i, rect) ==
    << Msg("Create", i, rect, 0),
       Msg("Configure", i, rect, 0),
       Msg("MapInfo", i, << >>, 0) >>

DaemonWindows ==
    {i \in Ids \ {SelfWindow} : Outstanding(seen[i].outstanding, lastOut, i)}

\* C12: the keys of the registry are exactly the client window ids for which
\* a Create was sent and no Destroy: no daemon-side window exists for an id
\* without a registry entry.  Checked under Spec; the code violates it.
C12_RegistryIsDaemonState ==
    DOMAIN map = DaemonWindows

\* ---------------------------------------------------------------- C13
\* The size of the shared framebuffer allocated for window i, or << >> when
\* it has none: the self-window's buf, a client window's qbuf.
Framebuffer(i) ==
    IF i = SelfWindow THEN <<selfwin.bufw, selfwin.bufh>>
    ELSE IF \E s \in SURFS : surf[s].window = i /\ surf[s].hasbuf
    THEN LET s == CHOOSE s \in SURFS : surf[s].window = i /\ surf[s].hasbuf
         IN  <<surf[s].buffer.width, surf[s].buffer.height>>
    ELSE << >>

FitsIn(rect, size) ==
    /\ size # << >>
    /\ rect[1] >= 0 /\ rect[2] >= 0
    /\ rect[1] + rect[3] <= size[1]
    /\ rect[2] + rect[4] <= size[2]

\* C13: every ShmImage sent for a window, from a damage copy or in reply to
\* a daemon Configure, names a rectangle inside the shared framebuffer
\* allocated for the window, and none is sent for a window without one.
\* Checked under Spec; the code violates it.
C13_ImageFitsFramebuffer ==
    \A k \in 1 .. Len(lastOut) :
        lastOut[k].ty = "ShmImage" =>
            FitsIn(lastOut[k].rect, Framebuffer(lastOut[k].window))

\* ---------------------------------------------------------------- C14
IsPixels(m, i) ==
    m.window = i /\ m.ty \in {"WindowDump", "ShmImage"}

\* C14: while the has_configured flag of a registered window is false, a
\* commit sends the daemon no buffer contents for it, neither WindowDump nor
\* ShmImage.  Checked under Spec; the code violates it.
C14_NoPixelsBeforeConfigure ==
    (/\ lastEv.ty = "Commit"
     /\ lastEv.window \in DOMAIN map
     /\ ~map[lastEv.window].has_configured)
        => \A k \in 1 .. Len(lastOut) : ~IsPixels(lastOut[k], lastEv.window)

\* ---------------------------------------------------------------- C15
\* A damage rectangle with non-positive extent or a negative origin, in
\* buffer coordinates.
Malformed(d, scale) ==
    LET r == to_buffer(d, scale)
    IN  r.w <= 0 \/ r.h <= 0 \/ r.x < 0 \/ r.y < 0

\* C15: when any rectangle of a commit's damage is malformed, wherever it
\* stands in the list, a protocol error is posted and the commit is dropped:
\* no ShmImage is sent and no framebuffer row is written for any rectangle
\* of the commit.  Checked under SpecBuf; the code violates it.
C15_MalformedDamageDropsCommit ==
    (/\ lastEv.ty = "Commit"
     /\ surf[lastEv.surface].hasbuf
     /\ \E k \in 1 .. Len(lastEv.arg.damage) :
           Malformed(lastEv.arg.damage[k], surf[lastEv.surface].buffer_scale))
        => /\ lastErr # << >>
           /\ lastWrites = << >>
           /\ \A k \in 1 .. Len(lastOut) : lastOut[k].ty # "ShmImage"

\* ---------------------------------------------------------------- C16
\* C16: on a wake, the drain loop handles the queued frames in order and
\* returns to the reactor only when the queue is empty (read_header would
\* block) or after a Close for window 1; a frame rejected as a protocol
\* violation is skipped and the frames behind it are handled in the same
\* wake.  Checked under SpecDrain; the code violates it.
C16_DrainsWholeQueue ==
    (lastEv.ty = "Wake" /\ ~panicked) =>
        LET frames == lastEv.arg.frames
            n == lastEv.arg.consumed
        IN  \/ n = Len(frames)
            \/ n >= 1 /\ frames[n] = CloseFrame(SelfWindow)

\* ---------------------------------------------------------------- C17
\* C17: a Focus event whose mode is not 0 is skipped: it changes no Activated
\* flag, sends no client a configure or popup_done, and leaves the keyboard
\* focus where it was.  Checked under SpecFocus; the code violates it.
C17_NonzeroModeSkipped ==
    (lastEv.ty = "Focus" /\ lastEv.arg.mode # 0 /\ ~panicked) =>
        /\ lastClient = << >>
        /\ kbfocus = lastEv.arg.focus
        /\ lastEv.pre.registered =>
              surf[map[lastEv.window].surface].activated = lastEv.pre.activated

\* ---------------------------------------------------------------- C18
DestroyFor(i) ==
    seen[i].destroyed \/ Destroys(lastOut, i) > 0

\* C18: a Close for window 1 clears the running flag; once cleared the flag
\* is never set again; when the callback has returned the main loop runs no
\* further callback; and no Destroy is ever sent for id 1.  Checked under
\* SpecTick.
C18_CloseStopsLoop ==
    /\ []((lastEv.ty = "Close" /\ lastEv.window = SelfWindow) => ~running)
    /\ [][~running => ~running']_vars
    /\ [][(~running /\ lastEv.ty = "idle") => UNCHANGED vars]_vars
    /\ [](~DestroyFor(SelfWindow))

\* The main loop has ended on a Close for window 1 after the tick had
\* destroyed a client window.
C18_LoopEnded ==
    /\ ~running
    /\ lastEv.ty = "idle"
    /\ \E i \in Ids : seen[i].destroyed

\* ---------------------------------------------------------------- C19
\* The window ids the event of a callback names.
Named(ev) ==
    IF ev.ty = "Wake"
    THEN {ev.arg.frames[k].window : k \in 1 .. Len(ev.arg.frames)}
    ELSE {ev.window}

\* A daemon callback whose event names only client window ids.
DaemonEventFor(ev) ==
    /\ ev.ty \in {"Configure", "Close", "Focus", "Wake"}
    /\ Named(ev) \cap {0, SelfWindow} = {}

\* C19: a daemon event (Configure, Close, Focus, Motion, Keypress) for a
\* nonzero window id other than 1 that is not in the registry leaves the
\* registry as it was, sends the daemon nothing for that id, and leaves
\* the agent running.  Checked under SpecUnknown.
C19_UnknownWindowIgnored ==
    [][(DaemonEventFor(lastEv') /\ lastEv.ty = "idle"
           /\ Named(lastEv') \cap DOMAIN map = {}) =>
          /\ map' = map
          /\ \A k \in 1 .. Len(lastOut') : lastOut'[k].window \notin Named(lastEv')
          /\ running'
          /\ ~panicked']_vars

\* A Configure has been handled for a window whose entry the tick had
\* removed before.
C19_ConfigureAfterDestroy ==
    /\ lastEv.ty = "Configure"
    /\ lastEv.window \in Ids
    /\ ~lastEv.pre.registered
    /\ seen[lastEv.window].destroyed

\* ---------------------------------------------------------------- C20
\* The registry entries whose toplevel is alive and has a title.
Titled ==
    {i \in DOMAIN map : /\ get_surface(map[i].surface) # 0
                        /\ surf[map[i].surface].title \in Titles}

\* C20: a tick completes without a fatal error and sends exactly one
\* SetTitle for every live entry that has a title, whatever the length of
\* the title.  Checked under SpecTick.
C20_TitlePerTick ==
    lastEv.ty = "Tick" =>
        /\ ~panicked
        /\ \A i \in Titled : Count(lastOut, "SetTitle", i) = 1

\* ---------------------------------------------------------------- C21
\* C21: a write error on the daemon socket during a handler is handed to
\* the reactor: the process does not panic and the running flag is cleared,
\* so that the main loop stops.  Checked under SpecIo.
C21_IoErrorStopsLoop ==
    lastEv.ty = "ConfigureFails" => (~panicked /\ ~running)

\* ---------------------------------------------------------------- C22
\* C22: a Keymap event hands the seat exactly one key input for each key i
\* of 0 .. 255, in order, pressed exactly when bit i mod 32 of word i div 32
\* is set.  Checked under SpecDrain.
C22_KeymapBits ==
    lastEv.ty = "Keymap" =>
        /\ Len(lastClient) = 256
        /\ \A i \in 0 .. 255 :
              /\ lastClient[i + 1].code = i
              /\ (lastClient[i + 1].state = "Pressed")
                    <=> ((i % 32) \in lastEv.arg[(i \div 32) + 1])

\* ---------------------------------------------------------------- C23
\* C23: a Motion event for a registered window with a live surface is
\* delivered with that surface as focus at, per axis, the event coordinate
\* plus the placement and plus the loc of the window geometry the surface
\* has committed, both clamped at zero, saturating at the largest unsigned
\* value; for an unknown window the focus is none.  Checked under
\* SpecMotion.
C23_MotionLocation ==
    (/\ lastEv.ty = "Wake"
     /\ Len(lastEv.arg.frames) = 1
     /\ lastEv.arg.frames[1].ty = "Motion") =>
        LET f == lastEv.arg.frames[1]
            w == f.window
        IN  /\ Len(lastClient) = 1
            /\ lastClient[1].ev = "motion"
            /\ w \notin DOMAIN map => lastClient[1].surface = 0
            /\ (w \in DOMAIN map /\ get_surface(map[w].surface) # 0) =>
                  LET s == map[w].surface
                      g == surf[s].xdg_geometry
                      at == map[w].coordinates
                  IN  /\ lastClient[1].surface = s
                      /\ lastClient[1].code =
                            << Min(WidMax, f.a + Max(at[1], 0)
                                              + (IF g.some THEN Max(g.x, 0) ELSE 0)),
                               Min(WidMax, f.b + Max(at[2], 0)
                                              + (IF g.some THEN Max(g.y, 0) ELSE 0)) >>

\* ---------------------------------------------------------------- C24
\* C24: a commit with one damage rectangle (x, y, sw, sh) in buffer
\* coordinates that starts inside an accepted W x H buffer, with no
\* geometry offset, copies exactly the rows y .. y + min(sh, H - y) - 1,
\* min(sw, W - x) pixels of each from the client's row to the same place of
\* the framebuffer, and sends one ShmImage per row with the rectangle
\* (x, y, min(sw, W - x), min(sh, H - y)).  Checked under SpecBuf; the code
\* violates it.
C24_CopiesClippedRows ==
    (/\ lastEv.ty = "Commit"
     /\ ~panicked
     /\ lastErr = << >>
     /\ surf[lastEv.surface].hasbuf
     /\ ~lastEv.arg.geometry.some
     /\ Len(lastEv.arg.damage) = 1
     /\ ~lastEv.arg.damage[1].surface
     /\ ~Malformed(lastEv.arg.damage[1], 1)
     /\ lastEv.arg.damage[1].x < CommitBuffer.width
     /\ lastEv.arg.damage[1].y < CommitBuffer.height) =>
        LET d == lastEv.arg.damage[1]
            b == CommitBuffer
            w == Min(d.w, b.width - d.x)
            h == Min(d.h, b.height - d.y)
            images == SelectSeq(lastOut, LAMBDA m : m.ty = "ShmImage")
        IN  /\ Len(lastWrites) = h
            /\ \A k \in 1 .. Len(lastWrites) :
                  /\ lastWrites[k].done
                  /\ lastWrites[k].len = BYTES_PER_PIXEL * w
                  /\ lastWrites[k].src = b.offset + BYTES_PER_PIXEL * d.x
                                            + (d.y + k - 1) * b.stride
                  /\ lastWrites[k].dst = BYTES_PER_PIXEL * (d.x + (d.y + k - 1) * b.width)
            /\ Len(images) = h
            /\ \A k \in 1 .. Len(images) : images[k].rect = <<d.x, d.y, w, h>>

\* ---------------------------------------------------------------- C25
\* C25: when a commit sanitizes the buffer of its surface, the buffer is
\* accepted exactly when the pool length fits an i32, offset >= 0,
\* width > 0, height > 0, stride / 4 >= width, stride * height fits an i32
\* and offset + stride * height is at most the pool length.  A pool that
\* does not fit posts invalid_fd once, any other violation posts
\* invalid_stride once, and in both cases nothing is copied; an accepted
\* buffer with valid damage posts no error.  Checked under SpecBuf.
C25_SanitizeVerdict ==
    (/\ lastEv.ty = "Commit"
     /\ lastEv.arg.damage # << >>
     /\ surf[lastEv.surface].hasbuf) =>
        LET b == CommitBuffer
            accepted == /\ b.offset >= 0
                        /\ b.width > 0
                        /\ b.height > 0
                        /\ TruncDiv(b.stride, BYTES_PER_PIXEL) >= b.width
                        /\ ~StrideOverflows(b)
                        /\ b.stride * b.height <= b.pool
                        /\ b.offset <= b.pool - b.stride * b.height
            valid == \A k \in 1 .. Len(lastEv.arg.damage) :
                        ~damage_invalid(to_buffer(lastEv.arg.damage[k],
                                                  surf[lastEv.surface].buffer_scale),
                                        b.width, b.height)
        IN  IF b.pool = HugePool
            THEN lastErr = << "invalid_fd" >> /\ lastWrites = << >>
            ELSE IF ~accepted
            THEN lastErr = << "invalid_stride" >> /\ lastWrites = << >>
            ELSE valid => lastErr = << >>

\* A commit copied from an accepted buffer that ends at the last byte of
\* its pool and does not start at the first.
C25_AcceptedAtPoolEnd ==
    /\ lastEv.ty = "Commit"
    /\ lastErr = << >>
    /\ lastWrites # << >>
    /\ CommitBuffer.offset > 0
    /\ CommitBuffer.offset + CommitBuffer.stride * CommitBuffer.height = CommitBuffer.pool

\* ---------------------------------------------------------------- C26
\* C26: a Configure for window 1 whose size differs from the last recorded
\* one leaves the self-framebuffer allocated for the new size and sends a
\* WindowDump for the new size before the ShmImage; a Configure with the
\* recorded size sends neither.  Checked under SpecConfigure; the code
\* violates it.
C26_ResizeDumpsFirst ==
    (lastEv.ty = "Configure" /\ lastEv.window = SelfWindow /\ ~panicked) =>
        LET size == RectSize(lastEv.rect)
            dumps == {k \in 1 .. Len(lastOut) : lastOut[k].ty = "WindowDump"}
            images == {k \in 1 .. Len(lastOut) : lastOut[k].ty = "ShmImage"}
        IN  IF size # lastEv.pre.last
            THEN /\ <<selfwin.bufw, selfwin.bufh>> = size
                 /\ images # {}
                 /\ \E k \in dumps :
                       /\ lastOut[k].rect = <<0, 0, size[1], size[2]>>
                       /\ \A j \in images : k < j
            ELSE dumps = {} /\ images = {}

\* ---------------------------------------------------------------- C27
\* C27: a Configure for window 1 that changes the size to (w, h) fills
\* (h / 2) * w pixels from byte offset (h / 4) * w * 4, inside
\* [0, w * h * 4) of the self-framebuffer, and none of the products w * h,
\* w * 4, (h / 2) * w and (h / 4) * w * 4 exceeds the largest unsigned
\* value.  Checked under SpecConfigure; the code violates it.
C27_ShadeFillInBounds ==
    (/\ lastEv.ty = "Configure"
     /\ lastEv.window = SelfWindow
     /\ RectSize(lastEv.rect) # lastEv.pre.last) =>
        LET w == lastEv.rect[3]
            h == lastEv.rect[4]
        IN  /\ ~panicked
            /\ w * h <= WidMax
            /\ w * 4 <= WidMax
            /\ (h \div 2) * w <= WidMax
            /\ (h \div 4) * w * 4 <= WidMax
            /\ Len(lastWrites) = 1
            /\ lastWrites[1].dst = (h \div 4) * w * 4
            /\ lastWrites[1].len = (h \div 2) * w * BYTES_PER_PIXEL
            /\ lastWrites[1].dst + lastWrites[1].len <= w * h * BYTES_PER_PIXEL

\* ---------------------------------------------------------------- C28
\* C28: a wake with one Button frame hands the pointer exactly one button
\* event with code 0x110, 0x112 or 0x111 for button 1, 2 or 3 and the state
\* of the type (4 pressed, 5 released), exactly one wheel axis frame for
\* button 4, 5, 6 or 7 (vertical -10, vertical +10, horizontal -10,
\* horizontal +10), and nothing for any other button or type.  Checked
\* under SpecDrain.
C28_ButtonTranslated ==
    (/\ lastEv.ty = "Wake"
     /\ Len(lastEv.arg.frames) = 1
     /\ lastEv.arg.frames[1].ty = "Button") =>
        LET button == lastEv.arg.frames[1].a
            ty == lastEv.arg.frames[1].b
        IN  IF ty \notin {4, 5} \/ button \notin 1 .. 7
            THEN lastClient = << >>
            ELSE /\ Len(lastClient) = 1
                 /\ IF button <= 3
                    THEN /\ lastClient[1].ev = "button"
                         /\ lastClient[1].code = << 272, 274, 273 >>[button]
                         /\ lastClient[1].state = << "Pressed", "Released" >>[ty - 3]
                    ELSE /\ lastClient[1].ev = "axis"
                         /\ lastClient[1].code = << "VerticalScroll", "VerticalScroll",
                                                    "HorizontalScroll",
                                                    "HorizontalScroll" >>[button - 3]
                         /\ lastClient[1].state = << -10, 10, -10, 10 >>[button - 3]

\* Button 2 was released: the middle button, code 0x112.
C28_MiddleReleased ==
    /\ lastEv.ty = "Wake"
    /\ lastEv.arg.frames = << ButtonFrame(2, 2, 5) >>
    /\ Len(lastClient) = 1
    /\ lastClient[1].code = 274

\* ---------------------------------------------------------------- C29
\* C29: a wake with one Keypress frame hands the seat exactly one key input
\* with code keycode - 8, pressed for type 2 and released for type 3, when
\* the keycode is in [8, 0x108) and the type is 2 or 3, and nothing
\* otherwise.  Checked under SpecDrain.
C29_KeypressTranslated ==
    (/\ lastEv.ty = "Wake"
     /\ Len(lastEv.arg.frames) = 1
     /\ lastEv.arg.frames[1].ty = "Keypress") =>
        LET keycode == lastEv.arg.frames[1].a
            ty == lastEv.arg.frames[1].b
        IN  IF keycode >= 8 /\ keycode < 264 /\ ty \in {2, 3}
            THEN /\ Len(lastClient) = 1
                 /\ lastClient[1].ev = "key"
                 /\ lastClient[1].code = keycode - 8
                 /\ lastClient[1].state = << "Pressed", "Released" >>[ty - 1]
            ELSE lastClient = << >>

\* The largest valid keycode was released.
C29_LastKeyReleased ==
    /\ lastEv.ty = "Wake"
    /\ lastEv.arg.frames = << KeypressFrame(2, 263, 3) >>
    /\ Len(lastClient) = 1
    /\ lastClient[1].code = 255

C31_GeometryShiftsSource ==
    (/\ lastEv.ty = "Commit"
     /\ ~panicked
     /\ lastErr = << >>
     /\ surf[lastEv.surface].hasbuf
     /\ Len(lastEv.arg.damage) = 1) =>
        LET b == CommitBuffer
            g == lastEv.arg.geometry
            c == clip(to_buffer(lastEv.arg.damage[1], surf[lastEv.surface].buffer_scale),
                      b.width, b.height)
            sx == IF g.some /\ g.x > 0 THEN g.x ELSE 0
            sy == IF g.some /\ g.y > 0 THEN g.y ELSE 0
        IN  IF c.w - sx <= 0 \/ c.h - sy <= 0
            THEN lastWrites = << >>
            ELSE /\ Len(lastWrites) = c.h - sy
                 /\ \A k \in 1 .. Len(lastWrites) :
                       /\ lastWrites[k].len = BYTES_PER_PIXEL * (c.w - sx)
                       /\ lastWrites[k].src = b.offset + BYTES_PER_PIXEL * (c.x + sx)
                                                 + (c.y + sy + k - 1) * b.stride

\* ---------------------------------------------------------------- C32
\* Surface s is the live surface of a registry entry.
LiveRegistered(s) ==
    \E i \in DOMAIN map : map[i].surface = s /\ get_surface(s) # 0

FrameDones(seq, s) ==
    Cardinality({k \in 1 .. Len(seq) :
                    seq[k].ev = "frame_done" /\ seq[k].surface = s})

C34_NoReentrantBorrow ==
    [][ /\ lastEv.ty # "idle" => lastEv'.ty = "idle"
        /\ lastEv'.ty # "idle" =>
              LET s == lastEv'.surface
                  fresh == s # 0 /\ surf[s].window = 0
              IN  ~borrow_conflict(callback_borrows(lastEv'.ty, fresh), 0) ]_vars

\* A commit has created the SurfaceData of its surface and returned, which
\* takes every borrow surface_commit can request.
C34_CommitCreatedData ==
    /\ lastEv.ty = "Commit"
    /\ ~panicked
    /\ Count(lastOut, "Create", lastEv.window) = 1
    /\ surf[lastEv.surface].window = lastEv.window

\* ---------------------------------------------------------------- C35
\* C35: over the life of the agent the daemon is sent at most one Create
\* for each window id, in whatever order the client commits a surface and
\* gives it a toplevel role.
C35_OneCreatePerId ==
    \A i \in Ids : seen[i].created + Count(lastOut, "Create", i) <= 1

\* ---------------------------------------------------------------- C36
\* C36: once Destroy has been sent for a window id, no callback sends the
\* daemon a message for that id and the id is not in the registry again,
\* even when the surface outlives its role and is committed or given a new
\* toplevel role.
C36_DestroyedIdIsRetired ==
    \A i \in Ids :
        seen[i].destroyed =>
            /\ i \notin DOMAIN map
            /\ \A k \in 1 .. Len(lastOut) : lastOut[k].window # i

\* ---------------------------------------------------------------- C37
\* C37: every commit on a surface tree a client can build, subsurfaces
\* without SurfaceData included, returns normally from surface_commit.
C37_CommitReturns ==
    lastEv.ty \in {"Commit", "CommitSubsurface"} => ~panicked
====
